---- MODULE Spec2Model ----
(***************************************************************************)
(* Model Configuration Store of the outcome-probability engine:            *)
(* ProbabilityConfigService (app/infrastructure/config/                    *)
(* probability_config_service.py) and its DTOs                             *)
(* (app/application/dto/probability_config_dto.py).                        *)
(*                                                                         *)
(* Strings are sequences of character codes, so that str.strip() and the   *)
(* ordering of str used by max() are computed rather than assumed.         *)
(* Optional[T] is a set with at most one element: {} is None.              *)
(* Floats are written in tenths (0.3 is 3, 10.0 is 100).                   *)
(*                                                                         *)
(* The Outcome Model is ProbabilityService                                 *)
(* (app/application/services/probability_service.py): its static methods   *)
(* are functions of their arguments, with probabilities in binary fixed    *)
(* point.                                                                  *)
(***************************************************************************)
EXTENDS Integers, Sequences, FiniteSets, TLC

VARIABLES
    configs,    \* ProbabilityConfigService._configs
    file,       \* the document at config_file
    clock,      \* what datetime.utcnow() reads
    last,       \* the call being served, with what it was given and yields
    threads,    \* callers inside activate_config or a read, statement by statement
    fl          \* the rounding error the float evaluation of the pmf carries

vars == <<configs, file, clock, last, threads, fl>>

(* ------------------------------ bounds ------------------------------ *)

\* most configurations the store holds in the model
MaxConfigs == 2

\* the largest of the small grids (max_goals) the outcome model is called with
SmallGoals == 2

\* the latest instant datetime.utcnow() reads in the model
MaxClock == 1

(* ------------------------------ strings ----------------------------- *)

\* characters str.strip() removes (ASCII whitespace)
Whitespace == {9, 10, 11, 12, 13, 28, 29, 30, 31, 32}

RECURSIVE lstrip(_)
lstrip(s) ==
    IF s = <<>> THEN <<>>
    ELSE IF Head(s) \in Whitespace THEN lstrip(Tail(s)) ELSE s

RECURSIVE rstrip(_)
rstrip(s) ==
    IF s = <<>> THEN <<>>
    ELSE IF s[Len(s)] \in Whitespace THEN rstrip(SubSeq(s, 1, Len(s) - 1)) ELSE s

\* str.strip()
strip(s) == rstrip(lstrip(s))

\* a < b for str: code point by code point, a proper prefix is smaller
RECURSIVE StrLess(_, _)
StrLess(a, b) ==
    IF b = <<>> THEN FALSE
    ELSE IF a = <<>> THEN TRUE
    ELSE IF Head(a) # Head(b) THEN Head(a) < Head(b)
    ELSE StrLess(Tail(a), Tail(b))

\* "1.0.0", the version of the bootstrap default
DefaultVersion == <<49, 46, 48, 46, 48>>
\* "Default probability model configuration"
DefaultDescription == "Default probability model configuration"

\* "", " ", "1.0", "2.0", " 2.0"
EmptyStr == <<>>
BlankStr == <<32>>
V10 == <<49, 46, 48>>
V20 == <<50, 46, 48>>
V20Padded == <<32, 50, 46, 48>>

(* ------------------------------- DTOs ------------------------------- *)

None == {}
Some(x) == {x}
\* the value of a non-None Optional
The(o) == CHOOSE x \in o : TRUE

\* ModelWeightsDTO(): the field defaults
ModelWeightsDTO ==
    [home_advantage |-> 3, form_weight |-> 2, head_to_head_weight |-> 1,
     league_position_weight |-> 1, goals_for_weight |-> 3,
     goals_against_weight |-> 3]

\* ThresholdsDTO(): the field defaults
ThresholdsDTO ==
    [min_goals_for_avg |-> 0, max_goals_for_avg |-> 100,
     min_goals_against_avg |-> 0, max_goals_against_avg |-> 100,
     min_league_avg_goals |-> 5, max_league_avg_goals |-> 50,
     min_home_advantage |-> 0, max_home_advantage |-> 10,
     probability_confidence_threshold |-> 6]

\* FeatureFlagsDTO(): the field defaults
FeatureFlagsDTO ==
    [enable_form_factor |-> FALSE, enable_head_to_head |-> FALSE,
     enable_league_position |-> FALSE, enable_weather_adjustment |-> FALSE,
     enable_injury_adjustment |-> FALSE, enable_motivation_factor |-> FALSE,
     use_weighted_averages |-> FALSE, enable_advanced_xg |-> FALSE]

\* ProbabilityConfigDTO.validate_version: accepts v unless it strips to ""
VersionIsValid(v) == strip(v) # <<>>

\* ProbabilityConfigDTO.validate_version: the version a validated DTO holds
validate_version(v) == strip(v)

\* ProbabilityConfigDTO(...): the DTO built by the constructor (version validated)
ProbabilityConfigDTO(v, mw, th, ff, desc, active, created, updated) ==
    [version |-> validate_version(v), model_weights |-> mw, thresholds |-> th,
     feature_flags |-> ff, description |-> desc, is_active |-> active,
     created_at |-> created, updated_at |-> updated]

\* ProbabilityConfigCreateDTO: version is kept as given (no validator)
ProbabilityConfigCreateDTO(v, mw, th, ff, desc, active) ==
    [version |-> v, model_weights |-> mw, thresholds |-> th,
     feature_flags |-> ff, description |-> desc, is_active |-> active]

\* ProbabilityConfigUpdateDTO: every field optional
ProbabilityConfigUpdateDTO(v, mw, th, ff, desc, active) ==
    [version |-> v, model_weights |-> mw, thresholds |-> th,
     feature_flags |-> ff, description |-> desc, is_active |-> active]

(* ------------------- the in-memory map self._configs ---------------- *)
(* A dict keeps insertion order: a sequence of <key, config> entries    *)
(* with pairwise different keys.                                        *)

Keys(d) == {d[i].key : i \in DOMAIN d}

Values(d) == [i \in DOMAIN d |-> d[i].config]

IndexOf(d, k) == CHOOSE i \in DOMAIN d : d[i].key = k

\* d[k]
Get(d, k) == d[IndexOf(d, k)].config

\* d[k] = c : replaces in place when k is a key, appends otherwise
Put(d, k, c) ==
    IF k \in Keys(d)
    THEN [d EXCEPT ![IndexOf(d, k)] = [key |-> k, config |-> c]]
    ELSE Append(d, [key |-> k, config |-> c])

\* Del comparing trimmed versions instead of keys
Del_trimmed(d, k) == SelectSeq(d, LAMBDA e : strip(e.key) # strip(k))

\* del d[k]
Del(d, k) == SelectSeq(d, LAMBDA e : e.key # k)

\* for config in d.values(): config.is_active = False
DeactivateAll(d) ==
    [i \in DOMAIN d |-> [d[i] EXCEPT !.config.is_active = FALSE]]

\* DeactivateOthers with the test inverted: clears the flag of version itself
DeactivateOthers_same_version(d, version) ==
    [i \in DOMAIN d |->
        IF d[i].config.version = version
        THEN [d[i] EXCEPT !.config.is_active = FALSE]
        ELSE d[i]]

\* for other in d.values(): if other.version != version: other.is_active = False
DeactivateOthers(d, version) ==
    [i \in DOMAIN d |->
        IF d[i].config.version # version
        THEN [d[i] EXCEPT !.config.is_active = FALSE]
        ELSE d[i]]

(* ------------------------- time and persistence --------------------- *)

\* datetime.utcnow()
utcnow == clock

\* datetime.isoformat() and datetime.fromisoformat()
isoformat(t) == [iso |-> t]
fromisoformat(s) == s.iso

\* config.model_dump() with created_at / updated_at converted to ISO strings
model_dump(c) ==
    [c EXCEPT !.created_at = {isoformat(t) : t \in c.created_at},
              !.updated_at = {isoformat(t) : t \in c.updated_at}]

\* _save_configs: the document written for the map d
save_configs(d, now) ==
    [metadata |-> [last_updated |-> isoformat(now),
                   total_configurations |-> Len(d)],
     configurations |->
        [i \in DOMAIN d |-> [key |-> d[i].key, record |-> model_dump(d[i].config)]]]

\* a document json.load() raises on: not JSON, or cut short by a failed write
Garbled == [garbled |-> TRUE]

\* data.get('configurations', {}).items()
document_records(data) ==
    IF "configurations" \in DOMAIN data THEN data.configurations ELSE <<>>

\* _load_configs, the body of the loop: the entry a record becomes, stored
\* under the record's key; None when ProbabilityConfigDTO(**config_data) raises
load_record(e) ==
    IF VersionIsValid(e.record.version)
    THEN Some([key |-> e.key,
               config |-> ProbabilityConfigDTO(e.record.version,
                   e.record.model_weights, e.record.thresholds,
                   e.record.feature_flags, e.record.description,
                   e.record.is_active,
                   {fromisoformat(t) : t \in e.record.created_at},
                   {fromisoformat(t) : t \in e.record.updated_at})])
    ELSE None

\* _load_configs, the loop: a record that raises is logged and skipped
RECURSIVE load_records(_)
load_records(records) ==
    IF records = <<>> THEN <<>>
    ELSE LET entry == load_record(Head(records))
         IN  (IF entry = None THEN <<>> ELSE <<The(entry)>>)
                 \o load_records(Tail(records))

(* ---------------------- operations as functions --------------------- *)
(* Each yields the outcome of the call (how it returns or what it       *)
(* raises) and the map it leaves in memory.                             *)

OK == "ok"
\* ValueError(f"Configuration version {v} already exists")
AlreadyExists == "already exists"
\* ValueError(f"Configuration version {v} not found")
NotFound == "not found"
\* ValueError("Cannot delete the only configuration")
OnlyConfiguration == "Cannot delete the only configuration"
\* pydantic ValidationError: "Version must be a non-empty string"
InvalidVersion == "Version must be a non-empty string"

\* create_config: the DTO built at "new_config = ProbabilityConfigDTO(...)"
create_new_config(data, now) ==
    ProbabilityConfigDTO(
        data.version,
        IF data.model_weights = None THEN ModelWeightsDTO ELSE The(data.model_weights),
        IF data.thresholds = None THEN ThresholdsDTO ELSE The(data.thresholds),
        IF data.feature_flags = None THEN FeatureFlagsDTO ELSE The(data.feature_flags),
        data.description, data.is_active, Some(now), Some(now))

\* what a call yields: how it ends, the map it leaves in memory, what it
\* returns, and whether it reached _save_configs()
Result(outcome, d, ret, saved) ==
    [outcome |-> outcome, configs |-> d, ret |-> ret, saved |-> saved]

\* create_config without the "deactivate others" loop
create_result_no_deactivate(d, data, now) ==
    IF data.version \in Keys(d) THEN Result(AlreadyExists, d, None, FALSE)
    ELSE IF ~VersionIsValid(data.version) THEN Result(InvalidVersion, d, None, FALSE)
    ELSE LET new_config == create_new_config(data, now)
         IN  Result(OK, Put(d, new_config.version, new_config), Some(new_config), TRUE)

\* create_config(config_data)
create_result(d, data, now) ==
    IF data.version \in Keys(d) THEN Result(AlreadyExists, d, None, FALSE)
    ELSE IF ~VersionIsValid(data.version) THEN Result(InvalidVersion, d, None, FALSE)
    ELSE LET new_config == create_new_config(data, now)
             d1 == IF new_config.is_active THEN DeactivateAll(d) ELSE d
         IN  Result(OK, Put(d1, new_config.version, new_config), Some(new_config), TRUE)

\* _create_default_config: the DTO of the bootstrap default
default_config ==
    ProbabilityConfigCreateDTO(DefaultVersion, None, None, None,
                               Some(DefaultDescription), TRUE)

\* _load_configs() into the empty map of __init__: f is the document found at
\* config_file, None when there is none
load_configs(f, now) ==
    IF f = None THEN create_result(<<>>, default_config, now)
    ELSE IF "garbled" \in DOMAIN The(f) THEN create_result(<<>>, default_config, now)
    ELSE Result(OK, load_records(document_records(The(f))), None, FALSE)

\* update_config: the key under which the configuration is stored afterwards
update_key(version, data) ==
    IF data.version # None /\ The(data.version) # version
    THEN The(data.version) ELSE version

\* update_config assigning the description whether the patch carries one or not
update_config_object_assigns_description(d, version, data, now) ==
    LET c0 == Get(d, version)
        c1 == [c0 EXCEPT !.version = update_key(version, data)]
        c2 == IF data.model_weights # None
              THEN [c1 EXCEPT !.model_weights = The(data.model_weights)] ELSE c1
        c3 == IF data.thresholds # None
              THEN [c2 EXCEPT !.thresholds = The(data.thresholds)] ELSE c2
        c4 == IF data.feature_flags # None
              THEN [c3 EXCEPT !.feature_flags = The(data.feature_flags)] ELSE c3
        c5 == [c4 EXCEPT !.description = data.description]
        c6 == IF data.is_active # None
              THEN [c5 EXCEPT !.is_active = The(data.is_active)] ELSE c5
    IN  [c6 EXCEPT !.updated_at = Some(now)]

\* update_config: the configuration object after the field assignments
update_config_object(d, version, data, now) ==
    LET c0 == Get(d, version)
        c1 == [c0 EXCEPT !.version = update_key(version, data)]
        c2 == IF data.model_weights # None
              THEN [c1 EXCEPT !.model_weights = The(data.model_weights)] ELSE c1
        c3 == IF data.thresholds # None
              THEN [c2 EXCEPT !.thresholds = The(data.thresholds)] ELSE c2
        c4 == IF data.feature_flags # None
              THEN [c3 EXCEPT !.feature_flags = The(data.feature_flags)] ELSE c3
        c5 == IF data.description # None
              THEN [c4 EXCEPT !.description = data.description] ELSE c4
        c6 == IF data.is_active # None
              THEN [c5 EXCEPT !.is_active = The(data.is_active)] ELSE c5
    IN  [c6 EXCEPT !.updated_at = Some(now)]

\* update_config without the check that the new version is free
update_result_no_conflict_check(d, version, data, now) ==
    IF version \notin Keys(d) THEN Result(NotFound, d, None, FALSE)
    ELSE LET key == update_key(version, data)
             config == update_config_object(d, version, data, now)
             d1 == IF key # version
                   THEN Put(Del(d, version), key, [Get(d, version) EXCEPT !.version = key])
                   ELSE d
             d2 == IF data.is_active = Some(TRUE)
                   THEN DeactivateOthers(d1, config.version) ELSE d1
         IN  Result(OK, Put(d2, key, config), Some(config), TRUE)

\* update_config(version, config_data)
update_result(d, version, data, now) ==
    IF version \notin Keys(d) THEN Result(NotFound, d, None, FALSE)
    ELSE IF /\ data.version # None
            /\ The(data.version) # version
            /\ The(data.version) \in Keys(d) THEN Result(AlreadyExists, d, None, FALSE)
    ELSE LET key == update_key(version, data)
             config == update_config_object(d, version, data, now)
             d1 == IF key # version
                   THEN Put(Del(d, version), key, [Get(d, version) EXCEPT !.version = key])
                   ELSE d
             d2 == IF data.is_active = Some(TRUE)
                   THEN DeactivateOthers(d1, config.version) ELSE d1
         IN  Result(OK, Put(d2, key, config), Some(config), TRUE)

\* delete_config without the "only configuration" check
delete_result_no_last_check(d, version) ==
    IF version \notin Keys(d) THEN Result(OK, d, Some(FALSE), FALSE)
    ELSE Result(OK, Del(d, version), Some(TRUE), TRUE)

\* delete_config(version)
delete_result(d, version) ==
    IF version \notin Keys(d) THEN Result(OK, d, Some(FALSE), FALSE)
    ELSE IF Len(d) = 1 THEN Result(OnlyConfiguration, d, None, FALSE)
    ELSE Result(OK, Del(d, version), Some(TRUE), TRUE)

\* activate_config without the "deactivate all" loop
activate_result_no_deactivate(d, version, now) ==
    IF version \notin Keys(d) THEN Result(NotFound, d, None, FALSE)
    ELSE LET config == [Get(d, version) EXCEPT !.is_active = TRUE,
                                               !.updated_at = Some(now)]
         IN  Result(OK, Put(d, version, config), Some(config), TRUE)

\* activate_config with the "deactivate all" loop ahead of the existence check
activate_result_deactivate_first(d, version, now) ==
    IF version \notin Keys(d) THEN Result(NotFound, DeactivateAll(d), None, FALSE)
    ELSE LET d1 == DeactivateAll(d)
             config == [Get(d1, version) EXCEPT !.is_active = TRUE,
                                                !.updated_at = Some(now)]
         IN  Result(OK, Put(d1, version, config), Some(config), TRUE)

\* activate_config(version)
activate_result(d, version, now) ==
    IF version \notin Keys(d) THEN Result(NotFound, d, None, FALSE)
    ELSE LET d1 == DeactivateAll(d)
             config == [Get(d1, version) EXCEPT !.is_active = TRUE,
                                                !.updated_at = Some(now)]
         IN  Result(OK, Put(d1, version, config), Some(config), TRUE)

\* "latest" taken as the configuration inserted last
MaxByVersion_last_inserted(d) == d[Len(d)].config

\* max(d.values(), key=lambda c: c.version): the first of the greatest
MaxByVersion(d) ==
    LET top(i) == \A j \in DOMAIN d : ~StrLess(d[i].config.version, d[j].config.version)
        i == CHOOSE i \in DOMAIN d : top(i) /\ \A j \in 1..(i - 1) : ~top(j)
    IN  d[i].config

\* the first configuration of d.values() with is_active set
FirstActive(d) ==
    LET i == CHOOSE i \in DOMAIN d :
                 d[i].config.is_active /\ \A j \in 1..(i - 1) : ~d[j].config.is_active
    IN  d[i].config

\* get_config(version): version is Optional[str]; "if version" is false for None and ""
get_config(d, version) ==
    IF version # None /\ The(version) # <<>>
    THEN IF The(version) \in Keys(d) THEN Some(Get(d, The(version))) ELSE None
    ELSE IF \E i \in DOMAIN d : d[i].config.is_active THEN Some(FirstActive(d))
    ELSE IF d # <<>> THEN Some(MaxByVersion(d))
    ELSE None

\* get_all_configs()
get_all_configs(d) == Values(d)

\* validate_config comparing min_goals_for_avg > max_goals_for_avg
validate_config_allows_equal(config) ==
    LET weights == config.model_weights
        total_weight == weights.goals_for_weight + weights.goals_against_weight
        thresholds == config.thresholds
        e1 == IF total_weight > 10
              THEN <<"Total weight exceeds 1.0">> ELSE <<>>
        e2 == IF thresholds.min_goals_for_avg > thresholds.max_goals_for_avg
              THEN <<"min_goals_for_avg must be less than max_goals_for_avg">> ELSE <<>>
        e3 == IF thresholds.min_goals_against_avg >= thresholds.max_goals_against_avg
              THEN <<"min_goals_against_avg must be less than max_goals_against_avg">>
              ELSE <<>>
        e4 == IF thresholds.min_league_avg_goals >= thresholds.max_league_avg_goals
              THEN <<"min_league_avg_goals must be less than max_league_avg_goals">>
              ELSE <<>>
        e5 == IF thresholds.min_home_advantage >= thresholds.max_home_advantage
              THEN <<"min_home_advantage must be less than max_home_advantage">>
              ELSE <<>>
    IN  e1 \o e2 \o e3 \o e4 \o e5

\* validate_config(config): the list of error strings
validate_config(config) ==
    LET weights == config.model_weights
        total_weight == weights.goals_for_weight + weights.goals_against_weight
        thresholds == config.thresholds
        e1 == IF total_weight > 10
              THEN <<"Total weight exceeds 1.0">> ELSE <<>>
        e2 == IF thresholds.min_goals_for_avg >= thresholds.max_goals_for_avg
              THEN <<"min_goals_for_avg must be less than max_goals_for_avg">> ELSE <<>>
        e3 == IF thresholds.min_goals_against_avg >= thresholds.max_goals_against_avg
              THEN <<"min_goals_against_avg must be less than max_goals_against_avg">>
              ELSE <<>>
        e4 == IF thresholds.min_league_avg_goals >= thresholds.max_league_avg_goals
              THEN <<"min_league_avg_goals must be less than max_league_avg_goals">>
              ELSE <<>>
        e5 == IF thresholds.min_home_advantage >= thresholds.max_home_advantage
              THEN <<"min_home_advantage must be less than max_home_advantage">>
              ELSE <<>>
    IN  e1 \o e2 \o e3 \o e4 \o e5

(* ---------------- the outcome model: ProbabilityService ------------- *)
(* Rates and averages (xG, goal averages, home advantage) are written   *)
(* in tenths, as the thresholds are. A Poisson term is a binary fixed-  *)
(* point number with FracBits fractional bits; the product of two terms *)
(* (a scoreline's probability) and every sum of products has twice as   *)
(* many, so that products and sums are exact. The float evaluation      *)
(* exp(k*log(l) - l - lgamma(k+1)) of a term is the term rounded to the *)
(* last place, give or take one unit in that place: fl says which.      *)

\* fractional bits of a Poisson term
FracBits == 15
\* 1.0 as a Poisson term, and 1.0 as a probability
Unit == 2 ^ FracBits
One == Unit * Unit

\* fractional bits math.exp is tabulated with
ExpBits == 24

\* math.exp(-l / 10) in units of 2^-ExpBits, for the rates the model uses
ExpNeg(l) ==
    CASE l = 5 -> 10175896
      [] l = 10 -> 6171993
      [] l = 15 -> 3743503
      [] l = 20 -> 2270549
      [] l = 30 -> 835288
      [] l = 40 -> 307285
      [] l = 60 -> 41587
      [] l = 100 -> 762

\* l^k * e^-l / k! for the rate l / 10, in units of 2^-ExpBits
RECURSIVE PoissonTerm(_, _)
PoissonTerm(l, k) ==
    IF k = 0 THEN ExpNeg(l)
    ELSE (PoissonTerm(l, k - 1) * l + 5 * k) \div (10 * k)

\* the roundings a build may apply: <<a, b>> moves the k-th term by
\* ((a * k + b) % 3) - 1 units in the last place; <<0, 1>> moves none
Roundings == {<<a, b>> : a \in 0..1, b \in 0..2}
RoundExact == <<0, 1>>
Ulp(k) == ((fl[1] * k + fl[2]) % 3) - 1

\* a float result rounded to FracBits, with the evaluation's error
Float(x, k) ==
    LET r == (x + 2 ^ (ExpBits - FracBits - 1)) \div (2 ^ (ExpBits - FracBits)) + Ulp(k)
    IN  IF r < 0 THEN 0 ELSE r

\* the ValueErrors of the outcome model
LambdaNegative == "Lambda parameter must be non-negative"
KNegative == "k must be non-negative"
AveragesNegative == "All goal averages must be non-negative"
LeagueAverageZero == "League average goals cannot be zero"
XgNegative == "Expected goals must be non-negative"
\* math.log(0.0): ValueError("math domain error")
MathDomainError == "math domain error"

\* how a function ends: the value it returns or the error it raises
Returns(v) == [outcome |-> OK, value |-> Some(v)]
Raises(e) == [outcome |-> e, value |-> None]

\* poisson_probability without the "lambda_param == 0" case
poisson_probability_no_zero_case(lambda_param, k) ==
    IF lambda_param < 0 THEN Raises(LambdaNegative)
    ELSE IF k < 0 THEN Raises(KNegative)
    ELSE IF lambda_param = 0 THEN Raises(MathDomainError)
    ELSE Returns(Float(PoissonTerm(lambda_param, k), k))

\* poisson_probability(lambda_param, k)
poisson_probability(lambda_param, k) ==
    IF lambda_param < 0 THEN Raises(LambdaNegative)
    ELSE IF k < 0 THEN Raises(KNegative)
    ELSE IF lambda_param = 0 THEN Returns(IF k = 0 THEN Unit ELSE 0)
    ELSE Returns(Float(PoissonTerm(lambda_param, k), k))

\* poisson_cumulative: the loop "for i in range(k + 1): cumulative += ..."
RECURSIVE cumulative_loop(_, _, _, _)
cumulative_loop(lambda_param, k, i, cumulative) ==
    IF i > k THEN Returns(cumulative)
    ELSE LET p == poisson_probability(lambda_param, i)
         IN  IF p.outcome # OK THEN p
             ELSE cumulative_loop(lambda_param, k, i + 1, cumulative + The(p.value))

\* poisson_cumulative(lambda_param, k)
poisson_cumulative(lambda_param, k) ==
    IF lambda_param < 0 THEN Raises(LambdaNegative)
    ELSE IF k < 0 THEN Returns(0)
    ELSE cumulative_loop(lambda_param, k, 0, 0)

\* goal averages are floats with one decimal: exact fractions n / d, d > 0
RECURSIVE GCD(_, _)
GCD(a, b) == IF b = 0 THEN a ELSE GCD(b, a % b)
Abs(x) == IF x < 0 THEN -x ELSE x
Frac(n, d) ==
    LET g == GCD(Abs(n), d)
    IN  [n |-> n \div g, d |-> d \div g]
Tenths(x) == Frac(x, 10)
FracAdd(x, y) == Frac(x.n * y.d + y.n * x.d, x.d * y.d)
FracSub(x, y) == Frac(x.n * y.d - y.n * x.d, x.d * y.d)
FracMul(x, y) == Frac(x.n * y.n, x.d * y.d)
FracDiv(x, y) == Frac(x.n * y.d, x.d * y.n)
FracLess(x, y) == x.n * y.d < y.n * x.d
FracMax(x, y) == IF FracLess(x, y) THEN y ELSE x

\* calculate_expected_goals subtracting the whole home advantage when away
calculate_expected_goals_full_penalty(team_goals_for_avg, team_goals_against_avg, opponent_goals_for_avg, opponent_goals_against_avg, league_avg_goals, home_advantage, is_home) ==
    IF \E x \in {team_goals_for_avg, team_goals_against_avg, opponent_goals_for_avg,
                 opponent_goals_against_avg, league_avg_goals} : x < 0
    THEN Raises(AveragesNegative)
    ELSE IF league_avg_goals = 0 THEN Raises(LeagueAverageZero)
    ELSE LET base == FracDiv(FracMul(Tenths(team_goals_for_avg),
                                     Tenths(opponent_goals_against_avg)),
                             Tenths(league_avg_goals))
             xg == IF is_home THEN FracAdd(base, Tenths(home_advantage))
                   ELSE FracSub(base, Tenths(home_advantage))
         IN  Returns(FracMax(Frac(0, 1), xg))

\* calculate_expected_goals(...)
calculate_expected_goals(team_goals_for_avg, team_goals_against_avg, opponent_goals_for_avg, opponent_goals_against_avg, league_avg_goals, home_advantage, is_home) ==
    IF \E x \in {team_goals_for_avg, team_goals_against_avg, opponent_goals_for_avg,
                 opponent_goals_against_avg, league_avg_goals} : x < 0
    THEN Raises(AveragesNegative)
    ELSE IF league_avg_goals = 0 THEN Raises(LeagueAverageZero)
    ELSE LET base == FracDiv(FracMul(Tenths(team_goals_for_avg),
                                     Tenths(opponent_goals_against_avg)),
                             Tenths(league_avg_goals))
             xg == IF is_home THEN FracAdd(base, Tenths(home_advantage))
                   ELSE FracSub(base, FracMul(Tenths(home_advantage), Frac(5, 10)))
         IN  Returns(FracMax(Frac(0, 1), xg))

\* the scoreline loops over range(max_goals) instead of range(max_goals + 1)
Scorelines_exclusive(max_goals) ==
    IF max_goals <= 0 THEN <<>>
    ELSE [n \in 1..(max_goals * max_goals) |->
             <<(n - 1) \div max_goals, (n - 1) % max_goals>>]

\* "for home_goals in range(max_goals + 1): for away_goals in
\* range(max_goals + 1)": the scorelines in the order the loops visit them
Scorelines(max_goals) ==
    IF max_goals < 0 THEN <<>>
    ELSE [n \in 1..((max_goals + 1) * (max_goals + 1)) |->
             <<(n - 1) \div (max_goals + 1), (n - 1) % (max_goals + 1)>>]

\* "prob = poisson_probability(home_xg, home_goals) *
\*         poisson_probability(away_xg, away_goals)"
scoreline_prob(home_xg, away_xg, home_goals, away_goals) ==
    LET home_prob == poisson_probability(home_xg, home_goals)
        away_prob == poisson_probability(away_xg, away_goals)
    IN  IF home_prob.outcome # OK THEN home_prob
        ELSE IF away_prob.outcome # OK THEN away_prob
        ELSE Returns(The(home_prob.value) * The(away_prob.value))

\* "+= prob" over the scorelines lo..hi that pass the accumulator's test
RECURSIVE SumRange(_, _, _, _)
SumRange(prob, test, lo, hi) ==
    IF lo > hi THEN 0
    ELSE IF lo = hi THEN (IF test[lo] THEN The(prob[lo].value) ELSE 0)
    ELSE SumRange(prob, test, lo, (lo + hi) \div 2)
             + SumRange(prob, test, (lo + hi) \div 2 + 1, hi)

\* what the loops add to one accumulator: the probabilities of the
\* scorelines that pass its test (test[n]: the n-th scoreline passes)
Accumulate(prob, test) == SumRange(prob, test, 1, Len(prob))

\* calculate_match_probabilities counting a total of exactly 2 as neither
\* over nor under
calculate_match_probabilities_under_2(home_xg, away_xg, max_goals) ==
    IF home_xg < 0 \/ away_xg < 0 THEN Raises(XgNegative)
    ELSE LET cells == Scorelines(max_goals)
             prob == [n \in DOMAIN cells |->
                         scoreline_prob(home_xg, away_xg, cells[n][1], cells[n][2])]
             home_goals == [n \in DOMAIN cells |-> cells[n][1]]
             away_goals == [n \in DOMAIN cells |-> cells[n][2]]
             total_goals == [n \in DOMAIN cells |-> cells[n][1] + cells[n][2]]
             failed == {n \in DOMAIN cells : prob[n].outcome # OK}
         IN  IF failed # {}
             THEN prob[CHOOSE n \in failed : \A m \in failed : n <= m]
             ELSE Returns(
               [home_win |-> Accumulate(prob, [n \in DOMAIN cells |-> home_goals[n] > away_goals[n]]),
                draw |-> Accumulate(prob, [n \in DOMAIN cells |-> home_goals[n] = away_goals[n]]),
                away_win |-> Accumulate(prob, [n \in DOMAIN cells |-> home_goals[n] < away_goals[n]]),
                total_goals_0 |-> Accumulate(prob, [n \in DOMAIN cells |-> total_goals[n] = 0]),
                total_goals_1 |-> Accumulate(prob, [n \in DOMAIN cells |-> total_goals[n] = 1]),
                total_goals_2 |-> Accumulate(prob, [n \in DOMAIN cells |-> total_goals[n] = 2]),
                total_goals_3 |-> Accumulate(prob, [n \in DOMAIN cells |-> total_goals[n] = 3]),
                total_goals_4_plus |-> Accumulate(prob, [n \in DOMAIN cells |-> total_goals[n] >= 4]),
                both_teams_score |-> Accumulate(prob, [n \in DOMAIN cells |-> home_goals[n] > 0 /\ away_goals[n] > 0]),
                over_2_5_goals |-> Accumulate(prob, [n \in DOMAIN cells |-> 10 * total_goals[n] > 25]),
                under_2_5_goals |-> Accumulate(prob, [n \in DOMAIN cells |-> total_goals[n] < 2])])

\* calculate_match_probabilities counting a total of exactly 4 goals in no bucket
calculate_match_probabilities_4_plus_above_4(home_xg, away_xg, max_goals) ==
    IF home_xg < 0 \/ away_xg < 0 THEN Raises(XgNegative)
    ELSE LET cells == Scorelines(max_goals)
             prob == [n \in DOMAIN cells |->
                         scoreline_prob(home_xg, away_xg, cells[n][1], cells[n][2])]
             home_goals == [n \in DOMAIN cells |-> cells[n][1]]
             away_goals == [n \in DOMAIN cells |-> cells[n][2]]
             total_goals == [n \in DOMAIN cells |-> cells[n][1] + cells[n][2]]
             failed == {n \in DOMAIN cells : prob[n].outcome # OK}
         IN  IF failed # {}
             THEN prob[CHOOSE n \in failed : \A m \in failed : n <= m]
             ELSE Returns(
               [home_win |-> Accumulate(prob, [n \in DOMAIN cells |-> home_goals[n] > away_goals[n]]),
                draw |-> Accumulate(prob, [n \in DOMAIN cells |-> home_goals[n] = away_goals[n]]),
                away_win |-> Accumulate(prob, [n \in DOMAIN cells |-> home_goals[n] < away_goals[n]]),
                total_goals_0 |-> Accumulate(prob, [n \in DOMAIN cells |-> total_goals[n] = 0]),
                total_goals_1 |-> Accumulate(prob, [n \in DOMAIN cells |-> total_goals[n] = 1]),
                total_goals_2 |-> Accumulate(prob, [n \in DOMAIN cells |-> total_goals[n] = 2]),
                total_goals_3 |-> Accumulate(prob, [n \in DOMAIN cells |-> total_goals[n] = 3]),
                total_goals_4_plus |-> Accumulate(prob, [n \in DOMAIN cells |-> total_goals[n] > 4]),
                both_teams_score |-> Accumulate(prob, [n \in DOMAIN cells |-> home_goals[n] > 0 /\ away_goals[n] > 0]),
                over_2_5_goals |-> Accumulate(prob, [n \in DOMAIN cells |-> 10 * total_goals[n] > 25]),
                under_2_5_goals |-> Accumulate(prob, [n \in DOMAIN cells |-> ~(10 * total_goals[n] > 25)])])

\* calculate_match_probabilities(home_xg, away_xg, max_goals)
calculate_match_probabilities(home_xg, away_xg, max_goals) ==
    IF home_xg < 0 \/ away_xg < 0 THEN Raises(XgNegative)
    ELSE LET cells == Scorelines(max_goals)
             prob == [n \in DOMAIN cells |->
                         scoreline_prob(home_xg, away_xg, cells[n][1], cells[n][2])]
             home_goals == [n \in DOMAIN cells |-> cells[n][1]]
             away_goals == [n \in DOMAIN cells |-> cells[n][2]]
             total_goals == [n \in DOMAIN cells |-> cells[n][1] + cells[n][2]]
             failed == {n \in DOMAIN cells : prob[n].outcome # OK}
         IN  IF failed # {}
             THEN prob[CHOOSE n \in failed : \A m \in failed : n <= m]
             ELSE Returns(
               [home_win |-> Accumulate(prob, [n \in DOMAIN cells |-> home_goals[n] > away_goals[n]]),
                draw |-> Accumulate(prob, [n \in DOMAIN cells |-> home_goals[n] = away_goals[n]]),
                away_win |-> Accumulate(prob, [n \in DOMAIN cells |-> home_goals[n] < away_goals[n]]),
                total_goals_0 |-> Accumulate(prob, [n \in DOMAIN cells |-> total_goals[n] = 0]),
                total_goals_1 |-> Accumulate(prob, [n \in DOMAIN cells |-> total_goals[n] = 1]),
                total_goals_2 |-> Accumulate(prob, [n \in DOMAIN cells |-> total_goals[n] = 2]),
                total_goals_3 |-> Accumulate(prob, [n \in DOMAIN cells |-> total_goals[n] = 3]),
                total_goals_4_plus |-> Accumulate(prob, [n \in DOMAIN cells |-> total_goals[n] >= 4]),
                both_teams_score |-> Accumulate(prob, [n \in DOMAIN cells |-> home_goals[n] > 0 /\ away_goals[n] > 0]),
                over_2_5_goals |-> Accumulate(prob, [n \in DOMAIN cells |-> 10 * total_goals[n] > 25]),
                under_2_5_goals |-> Accumulate(prob, [n \in DOMAIN cells |-> ~(10 * total_goals[n] > 25)])])

\* get_most_likely_scoreline keeping the last maximum ("prob >= max_prob")
RECURSIVE away_goals_loop_last_maximum(_, _, _, _, _, _)
away_goals_loop_last_maximum(home_xg, away_xg, max_goals, home_goals, away_goals, best) ==
    IF away_goals > max_goals THEN Returns(best)
    ELSE LET prob == scoreline_prob(home_xg, away_xg, home_goals, away_goals)
         IN  IF prob.outcome # OK THEN prob
             ELSE away_goals_loop_last_maximum(home_xg, away_xg, max_goals, home_goals, away_goals + 1,
                      IF The(prob.value) >= best.max_prob
                      THEN [max_prob |-> The(prob.value),
                            most_likely |-> <<home_goals, away_goals>>]
                      ELSE best)

\* get_most_likely_scoreline: "for away_goals in range(max_goals + 1)" from
\* away_goals on, with max_prob and most_likely as they stand in best
RECURSIVE away_goals_loop(_, _, _, _, _, _)
away_goals_loop(home_xg, away_xg, max_goals, home_goals, away_goals, best) ==
    IF away_goals > max_goals THEN Returns(best)
    ELSE LET prob == scoreline_prob(home_xg, away_xg, home_goals, away_goals)
         IN  IF prob.outcome # OK THEN prob
             ELSE away_goals_loop(home_xg, away_xg, max_goals, home_goals, away_goals + 1,
                      IF The(prob.value) > best.max_prob
                      THEN [max_prob |-> The(prob.value),
                            most_likely |-> <<home_goals, away_goals>>]
                      ELSE best)

\* get_most_likely_scoreline: "for home_goals in range(max_goals + 1)" from
\* home_goals on
RECURSIVE home_goals_loop(_, _, _, _, _)
home_goals_loop(home_xg, away_xg, max_goals, home_goals, best) ==
    IF home_goals > max_goals THEN Returns(best)
    ELSE LET row == away_goals_loop(home_xg, away_xg, max_goals, home_goals, 0, best)
         IN  IF row.outcome # OK THEN row
             ELSE home_goals_loop(home_xg, away_xg, max_goals, home_goals + 1,
                                  The(row.value))

\* get_most_likely_scoreline(home_xg, away_xg, max_goals)
get_most_likely_scoreline(home_xg, away_xg, max_goals) ==
    LET r == home_goals_loop(home_xg, away_xg, max_goals, 0,
                             [max_prob |-> 0, most_likely |-> <<0, 0>>])
    IN  IF r.outcome # OK THEN r
        ELSE Returns([home_goals |-> The(r.value).most_likely[1],
                      away_goals |-> The(r.value).most_likely[2],
                      probability |-> The(r.value).max_prob])

(* ------------------------------ inputs ------------------------------ *)

\* version strings the callers pass: "", " ", "1.0.0", "2.0", " 2.0"
VersionInputs == {EmptyStr, BlankStr, DefaultVersion, V20, V20Padded}

\* thresholds with min_goals_for_avg = max_goals_for_avg
FlatThresholds == [ThresholdsDTO EXCEPT !.min_goals_for_avg = 100]

CreateInputs ==
    {ProbabilityConfigCreateDTO(v, None, None, None, None, a) :
        v \in VersionInputs, a \in BOOLEAN}

UpdateInputs ==
    {ProbabilityConfigUpdateDTO(v, None, None, None, None, a) :
        v \in {None} \cup {Some(w) : w \in VersionInputs},
        a \in {None, Some(TRUE), Some(FALSE)}}

\* (min, max) of one threshold pair: min < max, min = max, min > max
PairInputs == {<<0, 10>>, <<10, 10>>, <<10, 0>>}

\* (goals_for_weight, goals_against_weight): sum 0.6, 1.0, 1.1
WeightInputs == {<<3, 3>>, <<5, 5>>, <<6, 5>>}

ValidateInputs ==
    {ProbabilityConfigDTO(V10,
        [ModelWeightsDTO EXCEPT !.goals_for_weight = w[1], !.goals_against_weight = w[2]],
        [ThresholdsDTO EXCEPT
            !.min_goals_for_avg = gf[1], !.max_goals_for_avg = gf[2],
            !.min_goals_against_avg = ga[1], !.max_goals_against_avg = ga[2],
            !.min_league_avg_goals = lg[1], !.max_league_avg_goals = lg[2],
            !.min_home_advantage = ha[1], !.max_home_advantage = ha[2]],
        FeatureFlagsDTO, None, FALSE, None, None) :
     w \in WeightInputs, gf \in PairInputs, ga \in PairInputs,
     lg \in PairInputs, ha \in PairInputs}

\* max_goals: int = 10
DefaultMaxGoals == 10

\* rates (xG) in tenths
XgInputs == {-10, 0, 5, 10, 15, 20, 30, 40, 60, 100}
MaxGoalsInputs == {-1} \cup (0..SmallGoals) \cup {DefaultMaxGoals}
KInputs == {-1} \cup (0..(SmallGoals + 1)) \cup {DefaultMaxGoals}

\* goal averages, league averages and home advantages in tenths
ExpectedGoalsInputs ==
    [team_goals_for_avg : {-1, 0, 15, 18}, team_goals_against_avg : {-1, 12, 13},
     opponent_goals_for_avg : {-1, 15, 18}, opponent_goals_against_avg : {-1, 12, 13},
     league_avg_goals : {-1, 0, 25}, home_advantage : {-3, 3, 30},
     is_home : BOOLEAN]

\* payloads a patch carries: a raised home_advantage weight, a switched-on
\* flag, another description
HeavyWeights == [ModelWeightsDTO EXCEPT !.home_advantage = 5]
AdvancedFlags == [FeatureFlagsDTO EXCEPT !.enable_advanced_xg = TRUE]
EditedDescription == "edited"

\* patches: every combination of supplied and absent fields
PatchInputs ==
    {ProbabilityConfigUpdateDTO(v, mw, th, ff, desc, a) :
        v \in {None, Some(V10), Some(V20)},
        mw \in {None, Some(HeavyWeights)},
        th \in {None, Some(FlatThresholds)},
        ff \in {None, Some(AdvancedFlags)},
        desc \in {None, Some(EditedDescription)},
        a \in {None, Some(TRUE), Some(FALSE)}}

\* calls made to a store that is restarted or whose writes fail: "2.0" is
\* created, "1.0.0" and "2.0" are renamed to "" or " 2.0" and activated
RestartVersions == {DefaultVersion, V20}

RestartCreate(a) == ProbabilityConfigCreateDTO(V20, None, None, None, None, a)

RestartUpdateInputs ==
    {ProbabilityConfigUpdateDTO(v, None, None, None, None, a) :
        v \in {None, Some(EmptyStr), Some(V20Padded)},
        a \in {None, Some(TRUE)}}

(* ------------------------------ actions ----------------------------- *)
(* last records the call that has just ended and not yet returned to   *)
(* its caller: the operation, its arguments, how it ended, what it      *)
(* returns, and the map and document before it. The store serves one    *)
(* call at a time: a call starts when none is pending.                  *)

\* no call is pending
Idle ==
    [op |-> "idle", version |-> None, data |-> None, outcome |-> OK,
     ret |-> None, before |-> <<>>, file_before |-> None]

\* a call that saves the document ahead of changing the map
Call_saves_first(op, version, data, r) ==
    /\ configs' = r.configs
    /\ file' = IF r.saved THEN Some(save_configs(configs, utcnow)) ELSE file
    /\ clock' = clock
    /\ last' = [op |-> op, version |-> version, data |-> data,
                outcome |-> r.outcome, ret |-> r.ret,
                before |-> configs, file_before |-> file]
    /\ UNCHANGED <<threads, fl>>

\* the call op(version, data) ends as r says; a call that reached
\* _save_configs() has written the document through
Call(op, version, data, r) ==
    /\ configs' = r.configs
    /\ file' = IF r.saved THEN Some(save_configs(r.configs, utcnow)) ELSE file
    /\ clock' = clock
    /\ last' = [op |-> op, version |-> version, data |-> data,
                outcome |-> r.outcome, ret |-> r.ret,
                before |-> configs, file_before |-> file]
    /\ UNCHANGED <<threads, fl>>

create_config(data) ==
    LET r == create_result(configs, data, utcnow)
    IN  /\ last = Idle
        /\ Len(r.configs) <= MaxConfigs
        /\ Call("create", Some(data.version), Some(data), r)

update_config(version, data) ==
    LET r == update_result(configs, version, data, utcnow)
    IN  /\ last = Idle
        /\ Call("update", Some(version), Some(data), r)

delete_config(version) ==
    LET r == delete_result(configs, version)
    IN  /\ last = Idle
        /\ Call("delete", Some(version), None, r)

activate_config(version) ==
    LET r == activate_result(configs, version, utcnow)
    IN  /\ last = Idle
        /\ Call("activate", Some(version), None, r)

\* get_config() with no version: the active configuration
get_active ==
    LET r == Result(OK, configs, get_config(configs, None), FALSE)
    IN  /\ last = Idle
        /\ Call("get_active", None, None, r)

\* get_config(version)
get_by_version(version) ==
    LET r == Result(OK, configs, get_config(configs, Some(version)), FALSE)
    IN  /\ last = Idle
        /\ Call("get_by_version", Some(version), None, r)

list_all ==
    LET r == Result(OK, configs, Some(get_all_configs(configs)), FALSE)
    IN  /\ last = Idle
        /\ Call("list_all", None, None, r)

validate(config) ==
    LET r == Result(OK, configs, Some(validate_config(config)), FALSE)
    IN  /\ last = Idle
        /\ Call("validate", None, Some(config), r)

\* a call of a static method of ProbabilityService: it ends as r says and
\* touches nothing of the store
StaticCall(op, args, r) ==
    Call(op, None, Some(args), Result(r.outcome, configs, r.value, FALSE))

pmf(lambda_param, k) ==
    /\ last = Idle
    /\ StaticCall("pmf", [lambda_param |-> lambda_param, k |-> k],
                  poisson_probability(lambda_param, k))

cdf(lambda_param, k) ==
    /\ last = Idle
    /\ StaticCall("cdf", [lambda_param |-> lambda_param, k |-> k],
                  poisson_cumulative(lambda_param, k))

expected_goals(args) ==
    /\ last = Idle
    /\ StaticCall("expected_goals", args,
          calculate_expected_goals(args.team_goals_for_avg, args.team_goals_against_avg,
              args.opponent_goals_for_avg, args.opponent_goals_against_avg,
              args.league_avg_goals, args.home_advantage, args.is_home))

match_probabilities(home_xg, away_xg, max_goals) ==
    /\ last = Idle
    /\ StaticCall("match_probabilities",
                  [home_xg |-> home_xg, away_xg |-> away_xg, max_goals |-> max_goals],
                  calculate_match_probabilities(home_xg, away_xg, max_goals))

most_likely_scoreline(home_xg, away_xg, max_goals) ==
    /\ last = Idle
    /\ StaticCall("most_likely_scoreline",
                  [home_xg |-> home_xg, away_xg |-> away_xg, max_goals |-> max_goals],
                  get_most_likely_scoreline(home_xg, away_xg, max_goals))

\* ProbabilityConfigService(config_file) is constructed anew over the document
\* the previous instance left
restart ==
    LET r == load_configs(file, utcnow)
    IN  /\ last = Idle
        /\ Call("restart", None, None, r)

\* ProbabilityConfigService(config_file) is constructed where no document exists
bootstrap ==
    LET r == load_configs(None, utcnow)
    IN  /\ last = Idle
        /\ Call("bootstrap", None, None, r)

\* the exception _save_configs() logs and re-raises
SaveFailed == "Error saving config file"

\* the call op(version, data) reaches _save_configs() and the write raises:
\* the map is as the method left it, the document is left as it was (mkdir
\* or open failed) or cut short (json.dump failed)
Call_save_fails(op, version, data, r, left) ==
    /\ r.saved
    /\ configs' = r.configs
    /\ file' = left
    /\ clock' = clock
    /\ last' = [op |-> op, version |-> version, data |-> data,
                outcome |-> SaveFailed, ret |-> None,
                before |-> configs, file_before |-> file]
    /\ UNCHANGED <<threads, fl>>

create_config_save_fails(data) ==
    LET r == create_result(configs, data, utcnow)
    IN  /\ last = Idle
        /\ Len(r.configs) <= MaxConfigs
        /\ \E left \in {file, Some(Garbled)} :
              Call_save_fails("create", Some(data.version), Some(data), r, left)

update_config_save_fails(version, data) ==
    LET r == update_result(configs, version, data, utcnow)
    IN  /\ last = Idle
        /\ \E left \in {file, Some(Garbled)} :
              Call_save_fails("update", Some(version), Some(data), r, left)

delete_config_save_fails(version) ==
    LET r == delete_result(configs, version)
    IN  /\ last = Idle
        /\ \E left \in {file, Some(Garbled)} :
              Call_save_fails("delete", Some(version), None, r, left)

activate_config_save_fails(version) ==
    LET r == activate_result(configs, version, utcnow)
    IN  /\ last = Idle
        /\ \E left \in {file, Some(Garbled)} :
              Call_save_fails("activate", Some(version), None, r, left)

\* time passes between two calls
Tick ==
    /\ last = Idle
    /\ clock < MaxClock
    /\ clock' = clock + 1
    /\ UNCHANGED <<configs, file, last, threads, fl>>

\* the pending call returns to its caller
Return ==
    /\ last # Idle
    /\ last' = Idle
    /\ UNCHANGED <<configs, file, clock, threads, fl>>

(* ------------------- callers running side by side ------------------ *)
(* The service holds no lock and config_service is one object shared by *)
(* every caller, so two callers inside its methods interleave statement *)
(* by statement. activate_config is stepped as its statements run: the  *)
(* existence test, one loop iteration per stored configuration, the     *)
(* flagging of the target, the save.                                    *)

Threads == {"t1", "t2"}

\* a caller outside the service
IdleThread ==
    [pc |-> "idle", op |-> "idle", version |-> None, i |-> 0,
     outcome |-> OK, ret |-> None]

NoThreads == [t \in Threads |-> IdleThread]

\* activate_config: "if version not in self._configs: raise ValueError"
activate_begin(t, version) ==
    /\ threads[t].pc = "idle"
    /\ threads' = [threads EXCEPT ![t] =
          IF version \notin Keys(configs)
          THEN [IdleThread EXCEPT !.pc = "done", !.op = "activate",
                                  !.version = Some(version), !.outcome = NotFound]
          ELSE [IdleThread EXCEPT !.pc = "deactivate", !.op = "activate",
                                  !.version = Some(version), !.i = 1]]
    /\ UNCHANGED <<configs, file, clock, last, fl>>

\* activate_config: one iteration of "for config in self._configs.values():
\* config.is_active = False"
activate_deactivate(t) ==
    LET i == threads[t].i
    IN  /\ threads[t].pc = "deactivate"
        /\ configs' = IF i \in DOMAIN configs
                      THEN [configs EXCEPT ![i].config.is_active = FALSE]
                      ELSE configs
        /\ threads' = [threads EXCEPT ![t] =
              IF i >= Len(configs) THEN [@ EXCEPT !.pc = "activate"]
              ELSE [@ EXCEPT !.i = i + 1]]
        /\ UNCHANGED <<file, clock, last, fl>>

\* activate_config: "config = self._configs[version]; config.is_active = True;
\* config.updated_at = datetime.utcnow()"
activate_set_active(t) ==
    LET version == The(threads[t].version)
        config == [Get(configs, version) EXCEPT !.is_active = TRUE,
                                                !.updated_at = Some(utcnow)]
    IN  /\ threads[t].pc = "activate"
        /\ configs' = Put(configs, version, config)
        /\ threads' = [threads EXCEPT ![t].pc = "save", ![t].ret = Some(config)]
        /\ UNCHANGED <<file, clock, last, fl>>

\* activate_config: "self._save_configs()"
activate_save(t) ==
    /\ threads[t].pc = "save"
    /\ file' = Some(save_configs(configs, utcnow))
    /\ threads' = [threads EXCEPT ![t].pc = "done"]
    /\ UNCHANGED <<configs, clock, last, fl>>

\* get_config() run by a caller while others are inside the service
reader_get_active(t) ==
    /\ threads[t].pc = "idle"
    /\ threads' = [threads EXCEPT ![t] =
          [IdleThread EXCEPT !.pc = "done", !.op = "get_active",
                             !.ret = get_config(configs, None)]]
    /\ UNCHANGED <<configs, file, clock, last, fl>>

\* get_all_configs() run by a caller while others are inside the service
reader_list_all(t) ==
    /\ threads[t].pc = "idle"
    /\ threads' = [threads EXCEPT ![t] =
          [IdleThread EXCEPT !.pc = "done", !.op = "list_all",
                             !.ret = Some(get_all_configs(configs))]]
    /\ UNCHANGED <<configs, file, clock, last, fl>>

\* the caller has its result (or its error) and leaves the service
thread_return(t) ==
    /\ threads[t].pc = "done"
    /\ threads' = [threads EXCEPT ![t] = IdleThread]
    /\ UNCHANGED <<configs, file, clock, last, fl>>

(* --------------------------- specifications ------------------------- *)

\* __init__ with no document on disk: _load_configs creates the default
Init ==
    /\ clock = 0
    /\ configs = create_result(<<>>, default_config, 0).configs
    /\ file = Some(save_configs(create_result(<<>>, default_config, 0).configs, 0))
    /\ last = Idle
    /\ threads = NoThreads
    /\ fl = RoundExact

Next ==
    \/ \E data \in CreateInputs : create_config(data)
    \/ \E v \in VersionInputs, data \in UpdateInputs : update_config(v, data)
    \/ \E v \in VersionInputs : delete_config(v)
    \/ \E v \in VersionInputs : activate_config(v)
    \/ get_active
    \/ \E v \in VersionInputs : get_by_version(v)
    \/ list_all
    \/ Return

Spec == Init /\ [][Next]_vars

\* the store under validate calls
NextValidate ==
    \/ \E config \in ValidateInputs : validate(config)
    \/ \E v \in {V10, V20}, th \in {None, Some(FlatThresholds)}, a \in BOOLEAN :
          create_config(ProbabilityConfigCreateDTO(v, None, th, None, None, a))
    \/ \E v \in {DefaultVersion, V10, V20} : delete_config(v)
    \/ Return

SpecValidate == Init /\ [][NextValidate]_vars

\* the outcome model, on a build with any of the roundings
InitOutcome ==
    /\ clock = 0
    /\ configs = create_result(<<>>, default_config, 0).configs
    /\ file = Some(save_configs(configs, 0))
    /\ last = Idle
    /\ threads = NoThreads
    /\ fl \in Roundings

NextOutcome ==
    \/ \E l \in XgInputs, k \in KInputs : pmf(l, k)
    \/ \E l \in XgInputs, k \in KInputs : cdf(l, k)
    \/ \E args \in ExpectedGoalsInputs : expected_goals(args)
    \/ \E h \in XgInputs, a \in XgInputs, g \in MaxGoalsInputs :
          match_probabilities(h, a, g)
    \/ \E h \in XgInputs, a \in XgInputs, g \in MaxGoalsInputs :
          most_likely_scoreline(h, a, g)
    \/ Return

SpecOutcome == InitOutcome /\ [][NextOutcome]_vars

\* the store two callers share: the default and "2.0", created active or not
InitConcurrent ==
    /\ clock = 0
    /\ \E a \in BOOLEAN :
          configs = create_result(create_result(<<>>, default_config, 0).configs,
                        ProbabilityConfigCreateDTO(V20, None, None, None, None, a),
                        0).configs
    /\ file = Some(save_configs(configs, 0))
    /\ last = Idle
    /\ threads = NoThreads
    /\ fl = RoundExact

\* callers of the shared config_service, interleaved
NextConcurrent ==
    \/ \E t \in Threads, v \in {DefaultVersion, V20, V10} : activate_begin(t, v)
    \/ \E t \in Threads : activate_deactivate(t)
    \/ \E t \in Threads : activate_set_active(t)
    \/ \E t \in Threads : activate_save(t)
    \/ \E t \in Threads : reader_get_active(t)
    \/ \E t \in Threads : reader_list_all(t)
    \/ \E t \in Threads : thread_return(t)

SpecConcurrent == InitConcurrent /\ [][NextConcurrent]_vars

\* the store under patches: the default and an inactive "2.0" described
\* "edited"; "2.0" (or what it was renamed to) is patched as time passes
InitPatch ==
    /\ clock = 0
    /\ configs = create_result(create_result(<<>>, default_config, 0).configs,
                      ProbabilityConfigCreateDTO(V20, None, None, None,
                                                 Some(EditedDescription), FALSE),
                      0).configs
    /\ file = Some(save_configs(configs, 0))
    /\ last = Idle
    /\ threads = NoThreads
    /\ fl = RoundExact

NextPatch ==
    \/ \E v \in {V10, V20}, data \in PatchInputs : update_config(v, data)
    \/ \E v \in {DefaultVersion, V10, V20} : activate_config(v)
    \/ Tick
    \/ Return

SpecPatch == InitPatch /\ [][NextPatch]_vars

\* the store over its document: instances come and go, writes may fail
InitRestart ==
    /\ clock = 0
    /\ configs = load_configs(None, 0).configs
    /\ file = Some(save_configs(load_configs(None, 0).configs, 0))
    /\ last = Idle
    /\ threads = NoThreads
    /\ fl = RoundExact

NextRestart ==
    \/ \E a \in BOOLEAN : create_config(RestartCreate(a))
    \/ \E v \in RestartVersions, data \in RestartUpdateInputs : update_config(v, data)
    \/ \E v \in VersionInputs : delete_config(v)
    \/ \E v \in RestartVersions : activate_config(v)
    \/ get_active
    \/ restart
    \/ bootstrap
    \/ \E a \in BOOLEAN : create_config_save_fails(RestartCreate(a))
    \/ \E v \in RestartVersions, data \in RestartUpdateInputs :
          update_config_save_fails(v, data)
    \/ \E v \in VersionInputs : delete_config_save_fails(v)
    \/ \E v \in RestartVersions : activate_config_save_fails(v)
    \/ Return

SpecRestart == InitRestart /\ [][NextRestart]_vars

(* ------------------------------ properties -------------------------- *)

\* the error kinds of the store's contract, as the ValueErrors the code raises
ConflictError == {AlreadyExists, OnlyConfiguration}
NotFoundError == {NotFound}

\* the positions of d flagged is_active
ActiveEntries(d) == {i \in DOMAIN d : d[i].config.is_active}

\* the configuration stored under k is flagged and no other is
OnlyActive(d, k) ==
    /\ k \in Keys(d)
    /\ \A i \in DOMAIN d : d[i].config.is_active <=> d[i].key = k

\* the pending call left the map and the document as they were
Untouched == configs = last.before /\ file = last.file_before

\* the pending call is op and did not raise
Ended(op) == last.op = op /\ last.outcome = OK

\* C1: in every reachable state exactly one stored configuration has
\* is_active = true.
C1_ExactlyOneActive == Cardinality(ActiveEntries(configs)) = 1

\* C2: the store always holds at least one configuration, and delete(v) on the
\* sole remaining configuration fails with ConflictError and changes nothing.
C2_NeverEmpty ==
    /\ Len(configs) >= 1
    /\ (/\ last.op = "delete"
        /\ Len(last.before) = 1
        /\ The(last.version) \in Keys(last.before))
       => (last.outcome \in ConflictError /\ Untouched)

C2_Witness ==
    /\ last.op = "delete"
    /\ last.outcome = OnlyConfiguration
    /\ Keys(last.before) = {The(last.version)}
    /\ The(last.version) # DefaultVersion

\* C3: after activate(v) succeeds, v is active, every other stored
\* configuration is inactive and get_active() returns v, whatever the flags
\* were before.
C3_ActivateExclusive ==
    Ended("activate") =>
        LET v == The(last.version)
        IN  /\ OnlyActive(configs, v)
            /\ get_config(configs, None) = Some(Get(configs, v))
            /\ last.ret = Some(Get(configs, v))

C3_Witness ==
    /\ Ended("activate")
    /\ Len(last.before) >= 2
    /\ ~Get(last.before, The(last.version)).is_active
    /\ ActiveEntries(last.before) # {}

\* C4: after create with is_active = true, or update with is_active = true
\* (also when the patch renames), the created or updated configuration is the
\* only active one and get_active() returns it.
C4_ActivatingWriteExclusive ==
    /\ (Ended("create") /\ The(last.data).is_active) =>
            /\ OnlyActive(configs, The(last.ret).version)
            /\ Get(configs, The(last.ret).version) = The(last.ret)
            /\ get_config(configs, None) = last.ret
    /\ (Ended("update") /\ The(last.data).is_active = Some(TRUE)) =>
            LET data == The(last.data)
                k == IF data.version # None THEN The(data.version)
                     ELSE The(last.version)
            IN  /\ OnlyActive(configs, k)
                /\ get_config(configs, None) = Some(Get(configs, k))

\* creating "2.0" as active while "1.0.0" was active
C4_Witness ==
    /\ Ended("create")
    /\ The(last.data).is_active
    /\ last.version = Some(V20)
    /\ DefaultVersion \in Keys(last.before)
    /\ Get(last.before, DefaultVersion).is_active
    /\ ~Get(configs, DefaultVersion).is_active

\* C5: create(data) fails with ConflictError whenever a configuration with
\* data's version (the trimmed version the configuration is created with) is
\* already stored, and then nothing changes.
C5_CreateDuplicateRejected ==
    (/\ last.op = "create"
     /\ VersionIsValid(The(last.version))
     /\ \E i \in DOMAIN last.before :
           last.before[i].config.version = validate_version(The(last.version)))
    => (last.outcome \in ConflictError /\ Untouched)

\* C6: update(v, patch) of a stored v with patch.version = w # v fails with
\* ConflictError and changes nothing when w is stored; otherwise v is no longer
\* a key, w maps to the configuration formerly at v, and the count is unchanged.
C6_Rename ==
    (/\ last.op = "update"
     /\ The(last.version) \in Keys(last.before)
     /\ The(last.data).version # None
     /\ The(The(last.data).version) # The(last.version))
    => LET v == The(last.version)
           data == The(last.data)
           w == The(data.version)
           old == Get(last.before, v)
       IN  IF w \in Keys(last.before)
           THEN last.outcome \in ConflictError /\ Untouched
           ELSE /\ last.outcome = OK
                /\ v \notin Keys(configs)
                /\ w \in Keys(configs)
                /\ Len(configs) = Len(last.before)
                /\ Get(configs, w) =
                      [old EXCEPT !.version = w,
                                  !.is_active = IF data.is_active = None
                                                THEN old.is_active
                                                ELSE The(data.is_active),
                                  !.updated_at = Get(configs, w).updated_at]

C6_Witness ==
    /\ Ended("update")
    /\ Len(last.before) >= 2
    /\ The(last.data).version # None
    /\ The(The(last.data).version) \notin Keys(last.before)
    /\ The(last.version) \notin Keys(configs)

\* C7: update(v, patch) and activate(v) on a version that is not stored fail
\* with NotFound and leave the map and the persisted document as they were.
C7_MissingTarget ==
    (/\ last.op \in {"update", "activate"}
     /\ The(last.version) \notin Keys(last.before))
    => (last.outcome \in NotFoundError /\ Untouched)

C7_Witness ==
    /\ last.op = "activate"
    /\ last.outcome = NotFound
    /\ The(last.version) \notin Keys(last.before)
    /\ ActiveEntries(last.before) # {}

\* C8: delete(v) returns false and changes nothing when v is not stored; when v
\* is stored and another configuration exists it returns true, removes exactly
\* v and leaves every other configuration unchanged.
C8_Delete ==
    last.op = "delete" =>
        LET v == The(last.version)
        IN  IF v \notin Keys(last.before)
            THEN last.outcome = OK /\ last.ret = Some(FALSE) /\ Untouched
            ELSE Len(last.before) >= 2 =>
                    /\ last.outcome = OK
                    /\ last.ret = Some(TRUE)
                    /\ Keys(configs) = Keys(last.before) \ {v}
                    /\ Len(configs) = Len(last.before) - 1
                    /\ \A k \in Keys(configs) : Get(configs, k) = Get(last.before, k)

C8_Witness ==
    /\ Ended("delete")
    /\ last.ret = Some(TRUE)
    /\ Len(last.before) = MaxConfigs
    /\ Get(last.before, The(last.version)).is_active

\* C9: get_active() returns the configuration flagged active when one exists;
\* when none is flagged it returns the stored configuration with the greatest
\* version string; it returns None only when the store is empty.
C9_GetActive ==
    last.op = "get_active" =>
        /\ last.outcome = OK
        /\ IF ActiveEntries(configs) # {}
           THEN \E i \in ActiveEntries(configs) : last.ret = Some(configs[i].config)
           ELSE IF configs # <<>>
           THEN \E i \in DOMAIN configs :
                    /\ last.ret = Some(configs[i].config)
                    /\ \A j \in DOMAIN configs :
                          ~StrLess(configs[i].config.version, configs[j].config.version)
           ELSE last.ret = None
        /\ last.ret = None => configs = <<>>

\* none flagged, and the greatest version is not the one inserted last
C9_Witness ==
    /\ last.op = "get_active"
    /\ ActiveEntries(configs) = {}
    /\ Len(configs) >= 2
    /\ last.ret # Some(configs[Len(configs)].config)

\* C10: validate(config) never raises and changes nothing; it returns an empty
\* list exactly when goals_for_weight + goals_against_weight <= 1.0 and
\* min < max holds for all four threshold pairs.
C10_Validate ==
    last.op = "validate" =>
        LET config == The(last.data)
            w == config.model_weights
            t == config.thresholds
        IN  /\ last.outcome = OK
            /\ Untouched
            /\ (last.ret = Some(<<>>)) <=>
                  /\ w.goals_for_weight + w.goals_against_weight <= 10
                  /\ t.min_goals_for_avg < t.max_goals_for_avg
                  /\ t.min_goals_against_avg < t.max_goals_against_avg
                  /\ t.min_league_avg_goals < t.max_league_avg_goals
                  /\ t.min_home_advantage < t.max_home_advantage

\* min_goals_for_avg = max_goals_for_avg and nothing else wrong
C10_Witness ==
    /\ last.op = "validate"
    /\ LET t == The(last.data).thresholds
           w == The(last.data).model_weights
       IN  /\ t.min_goals_for_avg = t.max_goals_for_avg
           /\ t.min_goals_against_avg < t.max_goals_against_avg
           /\ t.min_league_avg_goals < t.max_league_avg_goals
           /\ t.min_home_advantage < t.max_home_advantage
           /\ w.goals_for_weight + w.goals_against_weight = 10
    /\ last.ret # Some(<<>>)
    /\ Len(configs) >= 2

\* C11: mutating operations are serialized: however two concurrent calls of
\* activate for different versions interleave, the store never holds two
\* active configurations.
C11_NeverTwoActive == Cardinality(ActiveEntries(configs)) <= 1

\* C12: a get_active or list_all running alongside an activate sees the state
\* before or after it, never the state in between in which every
\* configuration is deactivated.
C12_ReadsSeeAnActive ==
    \A t \in Threads :
        /\ (threads[t].pc = "done" /\ threads[t].op = "list_all")
              => \E i \in DOMAIN The(threads[t].ret) : The(threads[t].ret)[i].is_active
        /\ (threads[t].pc = "done" /\ threads[t].op = "get_active")
              => (threads[t].ret # None /\ The(threads[t].ret).is_active)

\* the document record rec holds what the configuration c holds
SameRecord(rec, c) ==
    /\ rec.version = c.version
    /\ rec.model_weights = c.model_weights
    /\ rec.thresholds = c.thresholds
    /\ rec.feature_flags = c.feature_flags
    /\ rec.description = c.description
    /\ rec.is_active = c.is_active
    /\ {fromisoformat(x) : x \in rec.created_at} = c.created_at
    /\ {fromisoformat(x) : x \in rec.updated_at} = c.updated_at

\* C13: after every completed create, update, delete or activate the
\* persisted document holds exactly the records of the in-memory map, and its
\* metadata count equals the number of stored configurations.
C13_WriteThrough ==
    (last.op \in {"create", "update", "delete", "activate"} /\ last.outcome = OK) =>
        /\ file # None
        /\ The(file).metadata.total_configurations = Len(configs)
        /\ Len(The(file).configurations) = Len(configs)
        /\ \A i \in DOMAIN configs :
              /\ The(file).configurations[i].key = configs[i].key
              /\ SameRecord(The(file).configurations[i].record, configs[i].config)

C13_Witness ==
    /\ last.op \in {"update", "delete"}
    /\ last.outcome = OK
    /\ configs # last.before
    /\ file # last.file_before
    /\ The(file).metadata.total_configurations = Len(configs)

\* InvalidArgument, as the ValueErrors the outcome model raises
InvalidArgument ==
    {LambdaNegative, KNegative, AveragesNegative, LeagueAverageZero, XgNegative}

\* the arguments of the pending call
Args == The(last.data)

\* the pending call is op of the outcome model and returned a value
Returned(op) == last.op = op /\ last.outcome = OK /\ last.ret # None

\* C14: every operation of the outcome model rejects a violated numeric
\* precondition with InvalidArgument and returns nothing: pmf for lambda < 0
\* or k < 0, cdf for lambda < 0, expected_goals for a negative average, a
\* negative league average or a league average of 0, match_probabilities and
\* most_likely_scoreline for home_xg < 0 or away_xg < 0.
C14_PreconditionsRejected ==
    LET Rejected == last.outcome \in InvalidArgument /\ last.ret = None
    IN  /\ (last.op = "pmf" /\ (Args.lambda_param < 0 \/ Args.k < 0)) => Rejected
        /\ (last.op = "cdf" /\ Args.lambda_param < 0) => Rejected
        /\ (/\ last.op = "expected_goals"
            /\ \/ Args.team_goals_for_avg < 0
               \/ Args.team_goals_against_avg < 0
               \/ Args.opponent_goals_for_avg < 0
               \/ Args.opponent_goals_against_avg < 0
               \/ Args.league_avg_goals <= 0) => Rejected
        /\ (/\ last.op \in {"match_probabilities", "most_likely_scoreline"}
            /\ (Args.home_xg < 0 \/ Args.away_xg < 0)) => Rejected

\* C15: match_probabilities(0, 0, max_goals) for any max_goals >= 0 yields
\* exactly draw = 1.0, home_win = 0.0, away_win = 0.0 and total_goals_0 = 1.0,
\* with every other total-goals bucket, both_teams_score and over_2_5_goals
\* equal to 0.0.
C15_ZeroRate ==
    (/\ last.op = "match_probabilities"
     /\ Args.home_xg = 0 /\ Args.away_xg = 0 /\ Args.max_goals >= 0) =>
        /\ last.outcome = OK
        /\ last.ret # None
        /\ LET p == The(last.ret)
           IN  /\ p.draw = One /\ p.home_win = 0 /\ p.away_win = 0
               /\ p.total_goals_0 = One
               /\ p.total_goals_1 = 0 /\ p.total_goals_2 = 0
               /\ p.total_goals_3 = 0 /\ p.total_goals_4_plus = 0
               /\ p.both_teams_score = 0 /\ p.over_2_5_goals = 0

C15_Witness ==
    /\ Returned("match_probabilities")
    /\ Args = [home_xg |-> 0, away_xg |-> 0, max_goals |-> DefaultMaxGoals]
    /\ The(last.ret).draw = One
    /\ fl # RoundExact

\* how far a sum of scoreline probabilities of the model can lie from the
\* sum the floats give: each of the 2 * (max_goals + 1) Poisson terms is off by
\* at most 2 units in its last place
Resolution(max_goals) == 4 * (max_goals + 1) * (Unit + max_goals + 1)

\* |x - 1.0|
OffOne(x) == Abs(x - One)

C17_EqualXg ==
    (/\ Returned("match_probabilities")
     /\ Args.home_xg = Args.away_xg
     /\ Args.max_goals = DefaultMaxGoals) =>
        LET p == The(last.ret)
        IN  /\ p.home_win > p.away_win
            /\ p.draw > p.home_win
            /\ p.draw > p.away_win

\* C18: for non-negative averages and league_avg_goals > 0, expected_goals
\* returns max(0, team_for * opp_against / league_avg + home_advantage) when
\* is_home and max(0, team_for * opp_against / league_avg - home_advantage / 2)
\* otherwise, never a negative value; (1.8, 1.2, 1.5, 1.3, 2.5, 0.3, home)
\* gives 1.236 and the swapped away call 0.57.
C18_ExpectedGoals ==
    (/\ last.op = "expected_goals"
     /\ Args.team_goals_for_avg >= 0 /\ Args.team_goals_against_avg >= 0
     /\ Args.opponent_goals_for_avg >= 0 /\ Args.opponent_goals_against_avg >= 0
     /\ Args.league_avg_goals > 0) =>
        /\ last.outcome = OK
        /\ last.ret # None
        /\ LET xg == The(last.ret)
               \* the claimed value is num / den goals, before the clamp
               base == Args.team_goals_for_avg * Args.opponent_goals_against_avg
               num == IF Args.is_home
                      THEN base + Args.home_advantage * Args.league_avg_goals
                      ELSE 2 * base - Args.home_advantage * Args.league_avg_goals
               den == IF Args.is_home THEN 10 * Args.league_avg_goals
                      ELSE 20 * Args.league_avg_goals
           IN  /\ xg.d > 0 /\ xg.n >= 0
               /\ IF num <= 0 THEN xg.n = 0 ELSE xg.n * den = num * xg.d
               /\ (Args = [team_goals_for_avg |-> 18, team_goals_against_avg |-> 12,
                           opponent_goals_for_avg |-> 15,
                           opponent_goals_against_avg |-> 13, league_avg_goals |-> 25,
                           home_advantage |-> 3, is_home |-> TRUE])
                     => xg.n * 1000 = 1236 * xg.d
               /\ (Args = [team_goals_for_avg |-> 15, team_goals_against_avg |-> 13,
                           opponent_goals_for_avg |-> 18,
                           opponent_goals_against_avg |-> 12, league_avg_goals |-> 25,
                           home_advantage |-> 3, is_home |-> FALSE])
                     => xg.n * 100 = 57 * xg.d

C18_Witness ==
    /\ Returned("expected_goals")
    /\ Args = [team_goals_for_avg |-> 15, team_goals_against_avg |-> 13,
               opponent_goals_for_avg |-> 18, opponent_goals_against_avg |-> 12,
               league_avg_goals |-> 25, home_advantage |-> 3, is_home |-> FALSE]
    /\ The(last.ret) = [n |-> 57, d |-> 100]

\* the weight of the scoreline (h, a) in the pending call
Weight(h, a) == The(scoreline_prob(Args.home_xg, Args.away_xg, h, a).value)

\* C19: most_likely_scoreline returns a scoreline (h, a) of the grid
\* 0..max_goals whose weight pmf(home_xg, h) * pmf(away_xg, a) is maximal over
\* the grid, together with that weight; among scorelines of equal maximal
\* weight it returns the one with the lowest h and, for that h, the lowest a.
C19_MostLikelyScoreline ==
    (Returned("most_likely_scoreline") /\ Args.max_goals >= 0) =>
        LET r == The(last.ret)
            Goals == 0..Args.max_goals
        IN  /\ r.home_goals \in Goals /\ r.away_goals \in Goals
            /\ r.probability = Weight(r.home_goals, r.away_goals)
            /\ \A h \in Goals, a \in Goals :
                  /\ Weight(h, a) <= r.probability
                  /\ Weight(h, a) = r.probability
                        => \/ h > r.home_goals
                           \/ (h = r.home_goals /\ a >= r.away_goals)

C19_Witness ==
    /\ Returned("most_likely_scoreline")
    /\ Args.max_goals = DefaultMaxGoals
    /\ The(last.ret).probability > 0
    /\ The(last.ret).home_goals > 0
    /\ \E h \in 0..Args.max_goals, a \in 0..Args.max_goals :
          /\ <<h, a>> # <<The(last.ret).home_goals, The(last.ret).away_goals>>
          /\ Weight(h, a) = The(last.ret).probability

Patched(supplied, old, new) ==
    IF supplied = None THEN new = old ELSE new = The(supplied)

\* C21: update(v, patch) overwrites only the fields the patch supplies: every
\* field of v absent from the patch keeps its previous value, and of every
\* other stored configuration nothing changes except that is_active is cleared
\* when the patch sets is_active = true.
C21_UpdateFrame ==
    Ended("update") =>
        LET v == The(last.version)
            patch == The(last.data)
            old == Get(last.before, v)
            new == The(last.ret)
        IN  /\ Patched(patch.version, old.version, new.version)
            /\ Patched(patch.model_weights, old.model_weights, new.model_weights)
            /\ Patched(patch.thresholds, old.thresholds, new.thresholds)
            /\ Patched(patch.feature_flags, old.feature_flags, new.feature_flags)
            /\ IF patch.description = None
               THEN new.description = old.description
               ELSE new.description = patch.description
            /\ Patched(patch.is_active, old.is_active, new.is_active)
            /\ new.created_at = old.created_at
            /\ new.version \in Keys(configs) /\ Get(configs, new.version) = new
            /\ Len(configs) = Len(last.before)
            /\ \A i \in DOMAIN last.before :
                  last.before[i].key # v =>
                      /\ last.before[i].key \in Keys(configs)
                      /\ Get(configs, last.before[i].key) =
                            IF patch.is_active = Some(TRUE)
                            THEN [last.before[i].config EXCEPT !.is_active = FALSE]
                            ELSE last.before[i].config

\* a patch that supplies thresholds and is_active = true, no description and no
\* version, to a described configuration while another one is active
C21_Witness ==
    /\ Ended("update")
    /\ The(last.data).thresholds = Some(FlatThresholds)
    /\ The(last.data).description = None
    /\ The(last.data).version = None
    /\ The(last.data).is_active = Some(TRUE)
    /\ Get(last.before, The(last.version)).description # None
    /\ Get(last.before, The(last.version)).thresholds = ThresholdsDTO
    /\ \E i \in DOMAIN last.before :
          /\ last.before[i].key # The(last.version)
          /\ last.before[i].config.is_active
    /\ clock > 0

\* min < max for each of the four threshold pairs of a configuration
ThresholdsOrdered(config) ==
    LET thresholds == config.thresholds
    IN  /\ thresholds.min_goals_for_avg < thresholds.max_goals_for_avg
        /\ thresholds.min_goals_against_avg < thresholds.max_goals_against_avg
        /\ thresholds.min_league_avg_goals < thresholds.max_league_avg_goals
        /\ thresholds.min_home_advantage < thresholds.max_home_advantage

\* C22: a configuration is validated before it may be stored or activated: in
\* every reachable state every stored configuration, the active one in
\* particular, has min < max strictly for each of its four threshold pairs.
C22_StoredAreValid ==
    \A i \in DOMAIN configs : ThresholdsOrdered(configs[i].config)

\* C24: get_by_version(v) returns the stored configuration whose version
\* equals v, and None whenever no configuration with version v is stored; never
\* a configuration with a different version, for any string v, the empty
\* string included.
C24_GetByVersion ==
    last.op = "get_by_version" =>
        LET v == The(last.version)
            stored == {i \in DOMAIN configs : configs[i].config.version = v}
        IN  /\ last.outcome = OK
            /\ stored = {} => last.ret = None
            /\ stored # {} => \E i \in stored : last.ret = Some(configs[i].config)

\* C25: in every state reachable from the bootstrapped store by create,
\* update, delete and activate calls made one at a time, at most one stored
\* configuration has is_active = true.
C25_AtMostOneActive ==
    \A i, j \in DOMAIN configs :
        (configs[i].config.is_active /\ configs[j].config.is_active) => i = j

\* an update with is_active = true of an inactive configuration while another
\* one is active
C25_Witness ==
    /\ Ended("update")
    /\ The(last.data).is_active = Some(TRUE)
    /\ ~Get(last.before, The(last.version)).is_active
    /\ \E i \in DOMAIN last.before :
          /\ last.before[i].key # The(last.version)
          /\ last.before[i].config.is_active
    /\ Len(configs) >= 2

\* C26: in every reachable state each key of the in-memory map equals the
\* version field of the configuration stored under it, and every stored
\* version is a non-empty string without leading or trailing whitespace, after
\* create and after update with a rename alike.
C26_KeysAreTrimmedVersions ==
    \A i \in DOMAIN configs :
        /\ configs[i].key = configs[i].config.version
        /\ configs[i].config.version # <<>>
        /\ strip(configs[i].config.version) = configs[i].config.version

\* C27: a successful create adds exactly one configuration and neither
\* replaces nor removes a stored one: the number of stored configurations grows
\* by one and every configuration stored before keeps its version, weights,
\* thresholds, feature flags and description; only its is_active flag may be
\* cleared.
C27_CreateAddsOne ==
    Ended("create") =>
        /\ Len(configs) = Len(last.before) + 1
        /\ \A i \in DOMAIN last.before :
              \E j \in DOMAIN configs :
                  /\ configs[j].key = last.before[i].key
                  /\ [configs[j].config EXCEPT !.is_active = FALSE] =
                        [last.before[i].config EXCEPT !.is_active = FALSE]
                  /\ configs[j].config.is_active => last.before[i].config.is_active

\* the weight of the scorelines (h, 0..a), and of the rows 0..h of the grid
\* 0..max_goals
RECURSIVE RowWeight(_, _)
RowWeight(h, a) == IF a < 0 THEN 0 ELSE RowWeight(h, a - 1) + Weight(h, a)

RECURSIVE GridWeight(_)
GridWeight(h) ==
    IF h < 0 THEN 0 ELSE GridWeight(h - 1) + RowWeight(h, Args.max_goals)

\* C29: in match_probabilities every enumerated scoreline (h, a) adds its
\* weight to exactly one of home_win / draw / away_win, to exactly one of the
\* five total-goals buckets (4 or more in total_goals_4_plus) and to exactly
\* one of over_2_5_goals (h + a >= 3) / under_2_5_goals: each of the three
\* sums is the total enumerated weight, and both_teams_score does not exceed it.
C29_BucketsPartitionTheGrid ==
    Returned("match_probabilities") =>
        LET p == The(last.ret)
            total == GridWeight(Args.max_goals)
        IN  /\ p.home_win + p.draw + p.away_win = total
            /\ p.total_goals_0 + p.total_goals_1 + p.total_goals_2
                  + p.total_goals_3 + p.total_goals_4_plus = total
            /\ p.over_2_5_goals + p.under_2_5_goals = total
            /\ p.over_2_5_goals = p.total_goals_3 + p.total_goals_4_plus
            /\ p.under_2_5_goals = p.total_goals_0 + p.total_goals_1 + p.total_goals_2
            /\ p.both_teams_score <= total

\* a grid on which every bucket and every outcome has weight, totals of
\* exactly 4 and of more than 4 goals included
C29_Witness ==
    /\ Returned("match_probabilities")
    /\ Args.max_goals = SmallGoals + 1 \/ Args.max_goals = DefaultMaxGoals
    /\ Args.home_xg > Args.away_xg /\ Args.away_xg > 0
    /\ Weight(2, 2) > 0
    /\ Weight(Args.max_goals, Args.max_goals) > 0
    /\ The(last.ret).total_goals_3 > 0
    /\ The(last.ret).both_teams_score > The(last.ret).draw
    /\ fl # RoundExact

\* what the round trip is to preserve of a configuration
Content(c) ==
    [version |-> c.version, model_weights |-> c.model_weights,
     thresholds |-> c.thresholds, feature_flags |-> c.feature_flags,
     description |-> c.description, is_active |-> c.is_active]

\* the pending call is a restart over the document the previous instance
\* wrote for the map it held
RestartedFromOwnDocument ==
    /\ last.op = "restart"
    /\ last.file_before # None
    /\ "configurations" \in DOMAIN The(last.file_before)
    /\ The(last.file_before).configurations
          = save_configs(last.before, 0).configurations

\* C23: save followed by load is a round trip: a store initialized from the
\* document the last completed mutation wrote holds exactly the same versions,
\* each with the same weights, thresholds, feature flags, description and
\* is_active flag, as the store that wrote it.
C23_SaveLoadRoundTrip ==
    RestartedFromOwnDocument =>
        {Content(configs[i].config) : i \in DOMAIN configs}
            = {Content(last.before[i].config) : i \in DOMAIN last.before}

\* C28: after store initialization the store holds at least one configuration
\* and get_active() is not None, whatever the persisted document was (missing,
\* unreadable, holding zero records, or only records that fail to parse); when
\* no document exists the default "1.0.0" is created active and persisted.
C28_InitializedNonEmpty ==
    (last.op = "restart" \/ last.op = "bootstrap") =>
        /\ Len(configs) >= 1
        /\ get_config(configs, None) # None
        /\ last.op = "bootstrap" =>
              /\ Keys(configs) = {DefaultVersion}
              /\ Get(configs, DefaultVersion).is_active
              /\ file = Some(save_configs(configs, utcnow))

\* C30: when writing the document fails during create, update, delete or
\* activate, the operation raises and the in-memory store is as it was before
\* the call, so that memory and the last persisted document do not diverge.
C30_FailedSaveLeavesMemory ==
    last.outcome = SaveFailed =>
        /\ last.ret = None
        /\ configs = last.before

====
